---- MODULE Spec2Model ----
(***************************************************************************)
(* Model of the incremental page-capture engine of box.com-downloader:     *)
(* Scraper.capture_preview_images_cdp (src/scraper.py) together with the   *)
(* browser-side helper window._blobCapture it injects.                     *)
(*                                                                         *)
(* The rendering surface (the browser DOM) renders asynchronously, so what *)
(* each scan sees is an input of the scan; the results of scroll(),        *)
(* getScrollInfo() and waitForHighRes() are inputs of those steps; whether *)
(* a page file can be decoded and written is an input of the save step.    *)
(* The output directory is empty when the run starts.                      *)
(***************************************************************************)
EXTENDS Integers, Sequences, FiniteSets, TLC

\* ---- bounds of the model ------------------------------------------------
NumFP == 3        \* distinct content hashes the surface can show
MaxElems == 2     \* img/canvas elements attached to the DOM during one scan
MaxCap == 2       \* largest --max-pages value tried (0 stands for None)
MaxTotal == 1     \* largest detected page total tried (0 stands for None)
DefaultFP == 1    \* distinct content hashes in the runs of DefaultSpec
MaxFail == 2      \* save attempts the environment makes fail in one run
MaxSignals == 2   \* SIGINT/SIGTERM deliveries in one session
MaxCalls == 3     \* hashDataUrl calls looked at together
MaxScans == 3     \* collectNewBlobs calls looked at together
NumEls == 2       \* elements of the surface that can be the scroll container
ScenarioPerScroll == 3   \* new pages the scenario surface shows per scroll
ScenarioScrolls == 5     \* scrolls after which the scenario surface shows new pages

\* ---- program constants --------------------------------------------------
minWidth == 1000
fallbackMinWidth == 850
StallLimit == 15
DefaultPages == 500
ScrollFactor == 3

\* sample intrinsic widths: below the fallback threshold, a fallback image (890px),
\* a high-resolution image (1024px)
Widths == {800, 890, 1024}

\* An element of the surface as a scan sees it: its intrinsic width and the content
\* hash hashDataUrl gives its payload.  An element below the fallback threshold is
\* dropped before its payload is read, so one representative of it is enough.
Elem(n) == [width : Widths \ {800}, hash : 1..n] \cup {[width |-> 800, hash |-> 1]}

SeqsUpTo(S, n) == UNION {[1..k -> S] : k \in 0..n}

\* The elements a scan walks over, in the order it walks them: all <img> in document
\* order, then all <canvas>.  Both kinds go through the same tests.
Doms(n) == SeqsUpTo(Elem(n), MaxElems)

Hashes(s) == {s[k].hash : k \in 1..Len(s)}

\* The payloads of the model are NumFP fixed data URLs, named by their content
\* hash; the odd ones carry a PNG header (toDataURL('image/png') of a canvas or of
\* a blob image), the even ones a JPEG header (an <img src="data:image/jpeg...">).
\* ext = 'png' if 'png' in header else 'jpg'
Ext(h) == IF h % 2 = 1 THEN "png" ELSE "jpg"

VARIABLES
  max_pages,      \* argument max_pages, 0 = None
  total_pages,    \* page_info total/estimated, 0 = None
  pc,             \* position of the control thread in the capture loop
  page_count, no_new_count, scroll_count, batch_count,
  new_images,     \* result of the last collectNewBlobs call (new_images / final_images)
  idx,            \* position of the for loop in new_images
  seenBlobs,      \* window._blobCapture.seenBlobs
  files,          \* page files in output_dir: [n, ext, cand], cand = 0 for an unfinished file
  progress,       \* pbar.n, the count the progress bar shows
  \* ---- history variables (not program state) ----
  accepted,       \* number of candidates scans have returned so far, numbered 1..accepted
  scanned,        \* number of candidate images scans have examined, saturating at ScanCap
  seen_before,    \* seenBlobs as it was when the scan of the pending batch began
  skipped,        \* elements that scan passed over because their hash was in seenBlobs
  log,            \* one record per save attempt: [cand, hash, n, ok]
  body_runs,      \* number of times the loop body was entered
  empty_run,      \* number of consecutive main-loop scans, up to now, that returned nothing
  ended,          \* scroll() and getScrollInfo() have both reported atEnd
  post_end,       \* surface operations issued since then
  exit_reason,    \* why the loop was left: "" while running
  prev,           \* <<returned value, exit reason>> of an earlier call with the same arguments
  \* ---- the session around the capture (main) ----
  sess,           \* where the caller is: "none" when the capture is looked at alone
  caller,         \* "main": try/finally with clean(); "script": no clean(), atexit only
  engine,         \* capture method called: "cdp" or "legacy" (capture_preview_images)
  driver_obj,     \* self.driver_obj: "live" or "none"
  handler,        \* who handles SIGINT/SIGTERM: "scraper" or "original"
  pending,        \* exception on its way up: "", "error" (Exception) or "exit" (SystemExit)
  quits,          \* calls of driver_obj.quit() so far
  kills,          \* runs of pkill -f chromedriver so far
  signals,        \* signals _signal_handler has handled so far
  remote_raised,  \* a remote scripting call of the capture raised
  capture_returned, \* the capture method returned a count to its caller
  \* ---- history variables of the scanner looked at alone ----
  scans,          \* the collectNewBlobs calls so far: [dom, before, result] each
  calls,          \* the hashDataUrl calls so far: [url, key] each
  \* ---- the scroll driver and the wait step looked at alone ----
  surface,        \* _blobCapture.scrollContainer, the elements it can find, the window
  last_op,        \* the last scroll()/getScrollInfo() call: target and result (history)
  waiter,         \* the locals of a waitForHighRes() call and what it resolved with
  \* ---- the parts of the program looked at on their own, one field each ----
  other

config == <<max_pages, total_pages>>

\* what only the scroll driver and the wait step touch
driver == <<surface, last_op, waiter>>

probe == <<scans, calls, driver>>

\* what no step of the capture loop touches
outside == <<prev, sess, caller, engine, driver_obj, handler, pending, quits, kills,
             signals, remote_raised, capture_returned, probe>>

\* the variables of the capture loop
loop == <<pc, page_count, no_new_count, scroll_count, batch_count, new_images, idx,
          seenBlobs, files, progress, accepted, scanned, seen_before, skipped, log,
          body_runs, empty_run, ended, post_end, exit_reason>>

vars == <<max_pages, total_pages, pc, page_count, no_new_count, scroll_count,
          batch_count, new_images, idx, seenBlobs, files, progress, accepted, scanned,
          seen_before, skipped, log, body_runs, empty_run, ended, post_end, exit_reason,
          outside, other>>

\* the saturation point of scanned: seenBlobs never holds more than NumFP hashes
ScanCap == NumFP

Or3(a, b, c) == IF a # 0 THEN a ELSE IF b # 0 THEN b ELSE c

\* max_scrolls = (max_pages or total_pages or 500) * 3
max_scrolls == Or3(max_pages, total_pages, DefaultPages) * ScrollFactor

CapReached_Early == max_pages # 0 /\ page_count + 1 >= max_pages

\* if max_pages and page_count >= max_pages
CapReached == max_pages # 0 /\ page_count >= max_pages

\* no scroll driver call and no wait step is looked at
NoDriver ==
  /\ surface = [cached |-> 0, els |-> <<>>, winY |-> 0, bodyH |-> 0]
  /\ last_op = <<>>
  /\ waiter = <<>>

\* no caller, no second call
NoCaller ==
  /\ prev = <<>>
  /\ sess = "none"
  /\ caller = "main"
  /\ engine = "cdp"
  /\ driver_obj = "live"
  /\ handler = "scraper"
  /\ pending = ""
  /\ quits = 0
  /\ kills = 0
  /\ signals = 0
  /\ remote_raised = FALSE
  /\ capture_returned = FALSE

\* none of the parts looked at on their own is running
Idle == [release |-> <<>>, handlers |-> <<>>, legacy |-> <<>>, pager |-> <<>>, pdf |-> <<>>, dl |-> <<>>, loader |-> <<>>]

\* the capture looked at alone
Alone ==
  /\ other = Idle
  /\ NoCaller
  /\ scans = <<>>
  /\ calls = <<>>
  /\ NoDriver

\* the state when the while loop is first reached
LoopStart(mp, tp) ==
  /\ max_pages = mp
  /\ total_pages = tp
  /\ pc = "head"
  /\ page_count = 0
  /\ no_new_count = 0
  /\ scroll_count = 0
  /\ batch_count = 0
  /\ new_images = <<>>
  /\ idx = 1
  /\ seenBlobs = {}
  /\ files = {}
  /\ progress = 0
  /\ accepted = 0
  /\ scanned = 0
  /\ seen_before = {}
  /\ skipped = 0
  /\ log = <<>>
  /\ body_runs = 0
  /\ empty_run = 0
  /\ ended = FALSE
  /\ post_end = <<>>
  /\ exit_reason = ""

Start(mp, tp) == LoopStart(mp, tp) /\ Alone

\* the capture at rest while another part of the program is looked at
Elsewhere ==
  /\ LoopStart(0, 0)
  /\ NoCaller
  /\ scans = <<>>
  /\ calls = <<>>
  /\ NoDriver

\* a run given a page cap, or one that detected the page total
Init == \E mp \in 0..MaxCap, tp \in 0..MaxTotal : mp + tp > 0 /\ Start(mp, tp)

\* a run with neither: max_scrolls falls back to 500 * 3
InitDefault == Start(0, 0)

\* ---- window._blobCapture.collectNewBlobs ---------------------------------

Unseen_NoDedup(d, seen) == SelectSeq(d, LAMBDA e : e.width >= fallbackMinWidth)

\* elements that pass the size filter and whose content hash is not in seenBlobs
\* (the has() test runs while the elements are walked, before any add())
Unseen(d, seen) ==
  SelectSeq(d, LAMBDA e : e.width >= fallbackMinWidth /\ e.hash \notin seen)

highResImages(d, seen) == SelectSeq(Unseen(d, seen), LAMBDA e : e.width >= minWidth)

lowResImages(d, seen) == SelectSeq(Unseen(d, seen), LAMBDA e : e.width < minWidth)

\* results: the high-res bucket, or the low-res bucket when no high-res image is new
collectNewBlobs(d, seen) ==
  IF Len(highResImages(d, seen)) = 0 /\ Len(lowResImages(d, seen)) > 0
  THEN lowResImages(d, seen)
  ELSE highResImages(d, seen)

\* number of elements that got as far as the hash test
Examined(d) == Len(SelectSeq(d, LAMBDA e : e.width >= fallbackMinWidth))

Min(a, b) == IF a < b THEN a ELSE b

\* the scan's result as the loop receives it; candidates are numbered in the order
\* scans return them (history)
Numbered(res) ==
  [k \in 1..Len(res) |-> [hash |-> res[k].hash, width |-> res[k].width,
                          cand |-> accepted + k]]

Scan_Forget(d) ==
  LET res == collectNewBlobs(d, seenBlobs) IN
    /\ new_images' = Numbered(res)
    /\ seenBlobs' = IF Len(res) = 0 THEN seenBlobs ELSE Hashes(res)
    /\ seen_before' = seenBlobs
    /\ accepted' = accepted + Len(res)
    /\ scanned' = Min(scanned + Examined(d), ScanCap)
    /\ skipped' = Examined(d) - Len(Unseen(d, seenBlobs))

Scan_MarkAll(d) ==
  LET res == collectNewBlobs(d, seenBlobs) IN
    /\ new_images' = Numbered(res)
    /\ seenBlobs' = seenBlobs \cup Hashes(Unseen(d, seenBlobs))
    /\ seen_before' = seenBlobs
    /\ accepted' = accepted + Len(res)
    /\ scanned' = Min(scanned + Examined(d), ScanCap)
    /\ skipped' = Examined(d) - Len(Unseen(d, seenBlobs))

\* one call of collectNewBlobs on the surface d: the result and the seen-set
Scan(d) ==
  LET res == collectNewBlobs(d, seenBlobs) IN
    /\ new_images' = Numbered(res)
    /\ seenBlobs' = seenBlobs \cup Hashes(res)
    /\ seen_before' = seenBlobs
    /\ accepted' = accepted + Len(res)
    /\ scanned' = Min(scanned + Examined(d), ScanCap)
    /\ skipped' = Examined(d) - Len(Unseen(d, seenBlobs))

\* ---- saving one page -----------------------------------------------------

\* What the try block does with one candidate: it completes ("ok"), raises before
\* open() has created the file ("early": malformed data URL, open() itself fails),
\* or raises after open() created the file ("late": base64 decode, write).
Outcomes == {"ok", "early", "late"}

\* failed save attempts so far
NumFails == Cardinality({k \in 1..Len(log) : ~log[k].ok})

\* the environment makes at most MaxFail saves of a run fail
MayBe(o) == o = "ok" \/ NumFails < MaxFail

WriteFile_ByHash(dir, n, c, o) ==
  IF o = "early" THEN dir
  ELSE {f \in dir : ~(f.n = c.hash /\ f.ext = Ext(c.hash))}
         \cup {[n |-> c.hash, ext |-> Ext(c.hash), cand |-> IF o = "ok" THEN c.cand ELSE 0]}

\* open(filename, 'wb') creates or truncates page_<n>.<ext>; cand = 0 marks a file
\* the block did not finish
WriteFile(dir, n, c, o) ==
  IF o = "early" THEN dir
  ELSE {f \in dir : ~(f.n = n /\ f.ext = Ext(c.hash))}
         \cup {[n |-> n, ext |-> Ext(c.hash), cand |-> IF o = "ok" THEN c.cand ELSE 0]}

CountAfter_Always(n, o) == n - 1

CountAfter_Never(n, o) == n

CountAfter_EarlyOnly(n, o) == IF o = "early" THEN n - 1 ELSE n

\* page_count after the try/except: kept on success, rolled back on failure
CountAfter(n, o) == IF o = "ok" THEN n ELSE n - 1

\* page_count += 1; try: ... except: page_count -= 1
Save(c, o) ==
  LET n == page_count + 1 IN
    /\ MayBe(o)
    /\ files' = WriteFile(files, n, c, o)
    /\ page_count' = CountAfter(n, o)
    /\ log' = Append(log, [cand |-> c.cand, hash |-> c.hash, n |-> n, ok |-> o = "ok"])

Finish(reason) ==
  /\ pc' = "done"
  /\ exit_reason' = reason

\* a surface operation is issued
Issue(op) == post_end' = IF ended THEN Append(post_end, op) ELSE post_end

\* ---- the capture loop ----------------------------------------------------

\* while no_new_count < 15 and scroll_count < max_scrolls: / if cap reached: break
LoopTest ==
  /\ pc = "head"
  /\ IF no_new_count < StallLimit /\ scroll_count < max_scrolls
     THEN IF CapReached
          THEN Finish("capped") /\ UNCHANGED body_runs
          ELSE pc' = "scan" /\ body_runs' = body_runs + 1 /\ UNCHANGED exit_reason
     ELSE Finish(IF no_new_count >= StallLimit THEN "stalled" ELSE "scroll_cap")
          /\ UNCHANGED body_runs
  /\ UNCHANGED <<config, other, outside, progress, page_count, no_new_count, scroll_count, batch_count,
                 new_images, idx, seenBlobs, files, accepted, scanned, seen_before,
                 skipped, log, empty_run, ended, post_end>>

\* new_images = collectNewBlobs(); batch_count = 0
Collect(D) ==
  /\ pc = "scan"
  /\ \E d \in D :
       /\ Scan(d)
       /\ empty_run' = IF Len(collectNewBlobs(d, seenBlobs)) = 0 THEN empty_run + 1 ELSE 0
  /\ idx' = 1
  /\ batch_count' = 0
  /\ pc' = "save"
  /\ Issue("scan")
  /\ UNCHANGED <<config, other, outside, progress, page_count, no_new_count, scroll_count, files, log,
                 body_runs, ended, exit_reason>>

SavePage_AbortBatch ==
  /\ pc = "save"
  /\ idx <= Len(new_images)
  /\ ~CapReached
  /\ \E o \in Outcomes :
       /\ Save(new_images[idx], o)
       /\ batch_count' = IF o = "ok" THEN batch_count + 1 ELSE batch_count
       /\ idx' = IF o = "ok" THEN idx + 1 ELSE Len(new_images) + 1
  /\ UNCHANGED <<config, other, outside, progress, pc, no_new_count, scroll_count, new_images, seenBlobs,
                 accepted, scanned, seen_before, skipped, body_runs, empty_run, ended,
                 post_end, exit_reason>>

\* one pass of "for img_data in new_images": cap check, then the try/except
SavePage ==
  /\ pc = "save"
  /\ idx <= Len(new_images)
  /\ ~CapReached
  /\ \E o \in Outcomes :
       /\ Save(new_images[idx], o)
       /\ batch_count' = IF o = "ok" THEN batch_count + 1 ELSE batch_count
  /\ idx' = idx + 1
  /\ UNCHANGED <<config, other, outside, progress, pc, no_new_count, scroll_count, new_images, seenBlobs,
                 accepted, scanned, seen_before, skipped, body_runs, empty_run, ended,
                 post_end, exit_reason>>

NoNewAfter_NoReset(count, images, batch) == IF Len(images) = 0 THEN count + 1 ELSE count

NoNewAfter_ByBatch(count, images, batch) == IF batch = 0 THEN count + 1 ELSE 0

\* if not new_images: no_new_count += 1 else: no_new_count = 0
NoNewAfter(count, images, batch) == IF Len(images) = 0 THEN count + 1 ELSE 0

\* pbar_total = max_pages if max_pages else (total_pages or 100)
DefaultTotal == 100

\* pbar.total: set when the bar is created, assigned nowhere in the loop
pbar_total == Or3(max_pages, total_pages, DefaultTotal)

ProgressAfter_WholeScan(p, batch) == p + Len(new_images)

\* if batch_count > 0: pbar.update(batch_count)
ProgressAfter(p, batch) == IF batch > 0 THEN p + batch ELSE p

\* the for loop ends (list exhausted, or break at the cap); then the progress bar
\* and the stall counter
EndBatch ==
  /\ pc = "save"
  /\ idx > Len(new_images) \/ CapReached
  /\ no_new_count' = NoNewAfter(no_new_count, new_images, batch_count)
  /\ pc' = "scroll"
  \* new_images, batch_count and the loop position are not read again before the
  \* next scan assigns them
  /\ new_images' = <<>>
  /\ idx' = 1
  /\ batch_count' = 0
  /\ seen_before' = seenBlobs
  /\ skipped' = 0
  /\ progress' = ProgressAfter(progress, batch_count)
  /\ UNCHANGED <<config, other, outside, page_count, scroll_count, seenBlobs, files, accepted,
                 scanned, log, body_runs, empty_run, ended, post_end, exit_reason>>

ScrollCountAfter_Same(n) == n

\* scroll_count += 1
ScrollCountAfter(n) == n + 1

\* scroll_result = scroll(800); if scroll_result and scroll_result.get('atEnd')
Scroll ==
  /\ pc = "scroll"
  /\ scroll_count' = ScrollCountAfter(scroll_count)
  /\ \E atEnd \in BOOLEAN : pc' = IF atEnd THEN "info" ELSE "wait"
  /\ Issue("scroll")
  /\ UNCHANGED <<config, other, outside, progress, page_count, no_new_count, batch_count, new_images, idx,
                 seenBlobs, files, accepted, scanned, seen_before, skipped, log, body_runs,
                 empty_run, ended, exit_reason>>

GetScrollInfo_Uncorroborated ==
  /\ pc = "info"
  /\ Issue("info")
  /\ \E atEnd \in BOOLEAN :
       /\ pc' = "settle"
       /\ ended' = atEnd
  /\ UNCHANGED <<config, other, outside, progress, page_count, no_new_count, scroll_count,
                 batch_count, new_images, idx, seenBlobs, files, accepted, scanned,
                 seen_before, skipped, log, body_runs, empty_run, exit_reason>>

\* scroll_info = getScrollInfo(); if scroll_info.get('atEnd'): settle pass
GetScrollInfo ==
  /\ pc = "info"
  /\ Issue("info")
  /\ \E atEnd \in BOOLEAN :
       /\ pc' = IF atEnd THEN "settle" ELSE "wait"
       /\ ended' = atEnd
  /\ UNCHANGED <<config, other, outside, progress, page_count, no_new_count, scroll_count, batch_count,
                 new_images, idx, seenBlobs, files, accepted, scanned, seen_before,
                 skipped, log, body_runs, empty_run, exit_reason>>

\* waitForHighRes(); time.sleep(scroll_pause)
SettleWait ==
  /\ pc = "settle"
  /\ pc' = "final_scan"
  /\ Issue("wait")
  /\ UNCHANGED <<config, other, outside, progress, page_count, no_new_count, scroll_count, batch_count,
                 new_images, idx, seenBlobs, files, accepted, scanned, seen_before,
                 skipped, log, body_runs, empty_run, ended, exit_reason>>

\* final_images = collectNewBlobs()
FinalCollect(D) ==
  /\ pc = "final_scan"
  /\ \E d \in D : Scan(d)
  /\ idx' = 1
  /\ pc' = "final_save"
  /\ Issue("scan")
  /\ UNCHANGED <<config, other, outside, progress, page_count, no_new_count, scroll_count, batch_count,
                 files, log, body_runs, empty_run, ended, exit_reason>>

\* one pass of "for img_data in final_images": cap check, then the try/except
FinalSave ==
  /\ pc = "final_save"
  /\ idx <= Len(new_images)
  /\ ~CapReached
  /\ \E o \in Outcomes :
       /\ Save(new_images[idx], o)
       \* pbar.update(1) is the last statement of the try block
       /\ progress' = IF o = "ok" THEN progress + 1 ELSE progress
  /\ idx' = idx + 1
  /\ UNCHANGED <<config, other, outside, pc, no_new_count, scroll_count, batch_count, new_images,
                 seenBlobs, accepted, scanned, seen_before, skipped, body_runs, empty_run,
                 ended, post_end, exit_reason>>

FinalBreak_Continue ==
  /\ pc = "final_save"
  /\ idx > Len(new_images) \/ CapReached
  /\ pc' = "wait"
  /\ UNCHANGED <<config, other, outside, progress, page_count, no_new_count, scroll_count, batch_count,
                 new_images, idx, seenBlobs, files, accepted, scanned, seen_before,
                 skipped, log, body_runs, empty_run, ended, post_end, exit_reason>>

\* the final for loop ends; break out of the while loop
FinalBreak ==
  /\ pc = "final_save"
  /\ idx > Len(new_images) \/ CapReached
  /\ Finish("at_end")
  /\ UNCHANGED <<config, other, outside, progress, page_count, no_new_count, scroll_count, batch_count,
                 new_images, idx, seenBlobs, files, accepted, scanned, seen_before,
                 skipped, log, body_runs, empty_run, ended, post_end>>

\* wait_result = waitForHighRes(1000); time.sleep(...)
WaitForHighRes ==
  /\ pc = "wait"
  /\ pc' = "head"
  /\ Issue("wait")
  /\ UNCHANGED <<config, other, outside, progress, page_count, no_new_count, scroll_count, batch_count,
                 new_images, idx, seenBlobs, files, accepted, scanned, seen_before,
                 skipped, log, body_runs, empty_run, ended, exit_reason>>

Step(D) ==
  \/ LoopTest
  \/ Collect(D)
  \/ SavePage
  \/ EndBatch
  \/ Scroll
  \/ GetScrollInfo
  \/ SettleWait
  \/ FinalCollect(D)
  \/ FinalSave
  \/ FinalBreak
  \/ WaitForHighRes

Next == Step(Doms(NumFP))

Spec == Init /\ [][Next]_vars

\* every remote scripting call returns and the control thread keeps running
FairSpec == Spec /\ WF_vars(Next)

\* the run without cap and without detected total, on a short document
NextDefault == Step(Doms(DefaultFP))

DefaultSpec == InitDefault /\ [][NextDefault]_vars

\* ---- runs of every configuration ------------------------------------------
\* the surface of the run: a short document when neither cap nor total is known
DomsNow == IF max_pages = 0 /\ total_pages = 0 THEN Doms(DefaultFP) ELSE Doms(NumFP)

InitRun == Init \/ InitDefault

NextRun == Step(DomsNow)

RunSpec == InitRun /\ [][NextRun]_vars

\* print(f"Captured {page_count} pages via blob conversion"); return page_count
ReturnValue == page_count

\* ---- two calls with the same arguments -------------------------------------
\* The capture is called again on the same configuration with an empty output
\* directory and a fresh page; what the first call returned is kept in prev.
CallAgain ==
  /\ pc = "done"
  /\ prev = <<>>
  /\ prev' = <<ReturnValue, exit_reason>>
  /\ pc' = "head"
  /\ page_count' = 0
  /\ no_new_count' = 0
  /\ scroll_count' = 0
  /\ batch_count' = 0
  /\ new_images' = <<>>
  /\ idx' = 1
  /\ seenBlobs' = {}
  /\ files' = {}
  /\ progress' = 0
  /\ accepted' = 0
  /\ scanned' = 0
  /\ seen_before' = {}
  /\ skipped' = 0
  /\ log' = <<>>
  /\ body_runs' = 0
  /\ empty_run' = 0
  /\ ended' = FALSE
  /\ post_end' = <<>>
  /\ exit_reason' = ""
  /\ UNCHANGED <<config, other, probe, sess, caller, engine, driver_obj, handler, pending, quits, kills,
                 signals, remote_raised, capture_returned>>

NextTwice == Step(Doms(DefaultFP)) \/ CallAgain

TwiceSpec == InitRun /\ [][NextTwice]_vars

\* ---- the session: main() and the life cycle of the Scraper ---------------------
\* The session starts when Scraper.__init__ has returned: the driver is live, the
\* atexit hook is registered and _signal_handler handles SIGINT and SIGTERM.

\* the remote scripting calls of the loop: scan, scroll, scroll info, waits
RemotePoints == {"scan", "scroll", "info", "settle", "final_scan", "wait"}

\* _cleanup: driver_obj.quit() if there is a driver (an exception of quit() is
\* swallowed and leaves driver_obj set), then pkill -f chromedriver
cleanup(q) ==
  /\ IF driver_obj = "live"
     THEN /\ quits' = quits + 1
          /\ driver_obj' = IF q = "ok" THEN "none" ELSE "live"
     ELSE UNCHANGED <<quits, driver_obj>>
  /\ kills' = kills + 1

QuitOutcomes == {"ok", "raises"}

\* box_object.load_url()
load_url ==
  /\ sess = "load"
  /\ \E raises \in BOOLEAN :
       /\ sess' = IF raises THEN "finally" ELSE "title"
       /\ pending' = IF raises THEN "error" ELSE pending
  /\ UNCHANGED <<config, other, probe, loop, prev, caller, engine, driver_obj, handler, quits, kills,
                 signals, remote_raised, capture_returned>>

\* dl_name = box_object.get_download_title(); os.makedirs(output_dir)
get_download_title ==
  /\ sess = "title"
  /\ \E raises \in BOOLEAN :
       /\ sess' = IF raises THEN "finally" ELSE "capture"
       /\ pending' = IF raises THEN "error" ELSE pending
  /\ UNCHANGED <<config, other, probe, loop, prev, caller, engine, driver_obj, handler, quits, kills,
                 signals, remote_raised, capture_returned>>

\* one step of the loop of capture_preview_images_cdp
CaptureStep == sess = "capture" /\ engine = "cdp" /\ Step(Doms(DefaultFP))

\* a remote scripting call of capture_preview_images_cdp raises: no handler in the
\* method, the exception leaves it
RemoteRaise ==
  /\ sess = "capture"
  /\ engine = "cdp"
  /\ pc \in RemotePoints
  /\ remote_raised' = TRUE
  /\ pending' = "error"
  /\ sess' = "finally"
  /\ UNCHANGED <<config, other, probe, loop, prev, caller, engine, driver_obj, handler, quits, kills,
                 signals, capture_returned>>

\* capture_preview_images_cdp returns page_count
CaptureReturn ==
  /\ sess = "capture"
  /\ engine = "cdp"
  /\ pc = "done"
  /\ capture_returned' = TRUE
  /\ sess' = "finally"
  /\ UNCHANGED <<config, other, probe, loop, prev, caller, engine, driver_obj, handler, pending, quits,
                 kills, signals, remote_raised>>

\* capture_preview_images as a whole: its loop runs inside try/except Exception;
\* whether or not a remote call raised, the method goes on to
\* return len(page_images)
LegacyCapture ==
  /\ sess = "capture"
  /\ engine = "legacy"
  /\ remote_raised' \in BOOLEAN
  /\ capture_returned' = TRUE
  /\ sess' = "finally"
  /\ UNCHANGED <<config, other, probe, loop, prev, caller, engine, driver_obj, handler, pending, quits,
                 kills, signals>>

Finally_RestoreOnly ==
  /\ sess = "finally"
  /\ caller = "main"
  /\ handler' = "original"
  /\ sess' = "left"
  /\ UNCHANGED <<config, other, probe, loop, prev, caller, engine, driver_obj, pending, quits, kills,
                 signals, remote_raised, capture_returned>>

\* finally: if box_object: box_object.clean()   (clean: _cleanup, then the
\* original signal handlers are put back)
Finally ==
  /\ sess = "finally"
  /\ caller = "main"
  /\ \E q \in QuitOutcomes : cleanup(q)
  /\ handler' = "original"
  /\ sess' = "left"
  /\ UNCHANGED <<config, other, probe, loop, prev, caller, engine, pending, signals, remote_raised,
                 capture_returned>>

\* a caller that never calls clean(): the script runs to its end or dies of the
\* exception
Unwind ==
  /\ sess = "finally"
  /\ caller = "script"
  /\ sess' = "left"
  /\ UNCHANGED <<config, other, probe, loop, prev, caller, engine, driver_obj, handler, pending, quits,
                 kills, signals, remote_raised, capture_returned>>

\* interpreter exit: the atexit hook runs _cleanup
AtExit ==
  /\ sess = "left"
  /\ \E q \in QuitOutcomes : cleanup(q)
  /\ sess' = "exit"
  /\ UNCHANGED <<config, other, probe, loop, prev, caller, engine, handler, pending, signals,
                 remote_raised, capture_returned>>

\* where SystemExit raised by the handler takes the control thread
AfterSignal_Ignored(at) == at

\* sys.exit(0) raises SystemExit at the point the signal arrived; no except clause
\* of the session catches it (they catch Exception), so it unwinds to the finally
\* clause, or out of it when clean() had been reached
AfterSignal(at) == IF at \in {"load", "title", "capture"} THEN "finally" ELSE "left"

\* a save the signal interrupts between open() and the end of the write
Interrupted(dir) ==
  IF sess = "capture" /\ engine = "cdp" /\ pc \in {"save", "final_save"}
     /\ idx <= Len(new_images) /\ ~CapReached
  THEN {dir, WriteFile(dir, page_count + 1, new_images[idx], "late")}
  ELSE {dir}

\* _signal_handler: _cleanup(), sys.exit(0)
signal_handler ==
  /\ handler = "scraper"
  /\ signals < MaxSignals
  /\ sess \in {"load", "title", "capture", "finally", "left"}
  /\ \E q \in QuitOutcomes : cleanup(q)
  /\ signals' = signals + 1
  /\ pending' = "exit"
  /\ sess' = AfterSignal(sess)
  /\ files' \in Interrupted(files)
  /\ UNCHANGED <<config, other, probe, prev, caller, engine, handler, remote_raised, capture_returned,
                 pc, page_count, no_new_count, scroll_count, batch_count, new_images, idx,
                 seenBlobs, progress, accepted, scanned, seen_before, skipped, log,
                 body_runs, empty_run, ended, post_end, exit_reason>>

InitSession ==
  /\ other = Idle
  /\ \E mp \in 0..MaxCap, tp \in 0..MaxTotal : mp + tp > 0 /\ LoopStart(mp, tp)
  /\ prev = <<>>
  /\ sess = "load"
  /\ caller \in {"main", "script"}
  /\ engine \in {"cdp", "legacy"}
  /\ driver_obj = "live"
  /\ handler = "scraper"
  /\ pending = ""
  /\ quits = 0
  /\ kills = 0
  /\ signals = 0
  /\ remote_raised = FALSE
  /\ capture_returned = FALSE
  /\ scans = <<>>
  /\ calls = <<>>
  /\ NoDriver

NextSession ==
  \/ load_url
  \/ get_download_title
  \/ CaptureStep
  \/ RemoteRaise
  \/ CaptureReturn
  \/ LegacyCapture
  \/ Finally
  \/ Unwind
  \/ AtExit
  \/ signal_handler

SessionSpec == InitSession /\ [][NextSession]_vars

\* ---- a scripted surface ---------------------------------------------------
\* A document of ScenarioScrolls groups of ScenarioPerScroll pages.  Every page is
\* rendered at high resolution with a payload of its own; one more group is
\* rendered by each scroll, and the first group may already be there before the
\* first scroll.  Elements of the group before may still be attached.  scroll()
\* and getScrollInfo() report atEnd once every group has been shown.  Every save
\* completes.

ScenarioPages == ScenarioPerScroll * ScenarioScrolls

Group(j) ==
  [i \in 1..ScenarioPerScroll |-> [width |-> 1024, hash |-> (j - 1) * ScenarioPerScroll + i]]

\* groups the scans have picked up so far
ScenarioShown == Cardinality(seenBlobs \cap (1..ScenarioPages)) \div ScenarioPerScroll

\* what a main-loop scan may find attached
ScenarioDoms ==
  IF ScenarioShown < ScenarioScrolls
  THEN {Group(ScenarioShown + 1)}
         \cup (IF ScenarioShown > 0
               THEN {Group(ScenarioShown) \o Group(ScenarioShown + 1)} ELSE {})
         \cup (IF scroll_count = 0 THEN {<<>>} ELSE {})
  ELSE {<<>>, Group(ScenarioScrolls)}

\* what the scan of the settle pass may find: nothing new, or one late page
ScenarioSettleDoms ==
  {<<>>, Group(ScenarioScrolls), <<[width |-> 1024, hash |-> ScenarioPages + 1]>>}

InitScenario ==
  \E mp \in {0, ScenarioPages}, tp \in {0, ScenarioPages} : Start(mp, tp)

NextScenario ==
  \/ LoopTest
  \/ Collect(ScenarioDoms)
  \/ SavePage /\ page_count' = page_count + 1
  \/ EndBatch
  \/ Scroll /\ ((pc' = "info") <=> (ScenarioShown = ScenarioScrolls))
  \/ GetScrollInfo /\ ended'
  \/ SettleWait
  \/ FinalCollect(ScenarioSettleDoms)
  \/ FinalSave /\ page_count' = page_count + 1
  \/ FinalBreak
  \/ WaitForHighRes

ScenarioSpec == InitScenario /\ [][NextScenario]_vars

\* ---- window._blobCapture.hashDataUrl --------------------------------------
\* A data URL is a sequence of characters.

\* if (data.length < 1000) return data;
HashMinLen == 1000
\* data.substring(100, 300)
HeadFrom == 100
HeadTo == 300
\* data.substring(mid, mid + 200)
MidLen == 200
\* data.substring(data.length - 300)
TailLen == 300

Max(a, b) == IF a > b THEN a ELSE b

Clamp(x, n) == IF x < 0 THEN 0 ELSE IF x > n THEN n ELSE x

\* String.prototype.substring(a, b): both indices are clamped to 0..length and
\* swapped when a > b; the characters a..b-1, counted from 0
substring(s, a, b) ==
  LET ca == Clamp(a, Len(s))
      cb == Clamp(b, Len(s))
  IN SubSeq(s, Min(ca, cb) + 1, Max(ca, cb))

Commas(s) == {k \in 1..Len(s) : s[k] = ","}

Least(S) == CHOOSE x \in S : \A y \in S : x <= y

\* dataUrl.split(',')[1] || '': the piece between the first comma and the second
\* one (or the end); empty when there is no comma
SplitSecond(s) ==
  IF Commas(s) = {} THEN <<>>
  ELSE LET c1 == Least(Commas(s))
           rest == Commas(s) \ {c1}
           c2 == IF rest = {} THEN Len(s) + 1 ELSE Least(rest)
       IN SubSeq(s, c1 + 1, c2 - 1)

hashDataUrl_Counted(dataUrl) ==
  LET data == SplitSecond(dataUrl) IN
    IF Len(data) < HashMinLen THEN Append(data, Cardinality(seenBlobs))
    ELSE Append(substring(data, HeadFrom, HeadTo), Cardinality(seenBlobs))

hashDataUrl_NoTail(dataUrl) ==
  LET data == SplitSecond(dataUrl)
      mid == Len(data) \div 2
  IN IF Len(data) < HashMinLen THEN data
     ELSE substring(data, HeadFrom, HeadTo) \o substring(data, mid, mid + MidLen)

hashDataUrl(dataUrl) ==
  LET data == SplitSecond(dataUrl)
      mid == Len(data) \div 2
  IN IF Len(data) < HashMinLen THEN data
     ELSE substring(data, HeadFrom, HeadTo)
          \o substring(data, mid, mid + MidLen)
          \o substring(data, Len(data) - TailLen, Len(data))

\* The data URLs the hash is tried on: a header, a comma and a data segment of
\* "A"s with at most one "B" in it; the same without any comma; the same with a
\* second comma and more text behind it; the same with another header.
Header == <<"d", "a", "t", "a", ":">>

Lens == {2, HashMinLen, HashMinLen + TailLen + 1}

Marks == {0, HeadFrom \div 2, (HeadFrom + HeadTo) \div 2}

Segment(len, mark) == [k \in 1..len |-> IF k = mark THEN "B" ELSE "A"]

UrlIds ==
  ({"plain"} \X Lens \X Marks) \cup {<<"bare", 2, 0>>, <<"extra", 2, 0>>, <<"jpeg", 2, 0>>}

DataUrl(id) ==
  IF id[1] = "bare" THEN Header \o Segment(id[2], id[3])
  ELSE IF id[1] = "extra" THEN Header \o <<",">> \o Segment(id[2], id[3]) \o <<",", "A">>
  ELSE IF id[1] = "jpeg" THEN Header \o <<"j", ",">> \o Segment(id[2], id[3])
  ELSE Header \o <<",">> \o Segment(id[2], id[3])

\* the session variables
session == <<prev, sess, caller, engine, driver_obj, handler, pending, quits, kills,
             signals, remote_raised, capture_returned>>

\* var contentHash = this.hashDataUrl(dataUrl);
HashCall ==
  /\ Len(calls) < MaxCalls
  /\ \E id \in UrlIds :
       calls' = Append(calls, [url |-> id, key |-> hashDataUrl(DataUrl(id)),
                               seen |-> Cardinality(seenBlobs)])
  /\ UNCHANGED <<config, other, loop, session, scans, driver>>

\* this.seenBlobs.add(hash) for a candidate whose hash was computed before
SeenAdd ==
  /\ \E k \in 1..Len(calls) :
       /\ calls[k].key \notin seenBlobs
       /\ seenBlobs' = seenBlobs \cup {calls[k].key}
  /\ UNCHANGED <<config, other, session, probe, pc, page_count, no_new_count, scroll_count,
                 batch_count, new_images, idx, files, progress, accepted, scanned,
                 seen_before, skipped, log, body_runs, empty_run, ended, post_end,
                 exit_reason>>

NextHash == HashCall \/ SeenAdd

HashSpec == InitDefault /\ [][NextHash]_vars

\* ---- the scanner looked at alone -------------------------------------------
\* collectNewBlobs called MaxScans times in a row, as the loop calls it, on any
\* surfaces; every call is recorded with the surface it walked over, seenBlobs as
\* it was before the call and the result it returned.

ScanCall ==
  /\ Len(scans) < MaxScans
  /\ \E d \in Doms(NumFP) :
       /\ Scan(d)
       /\ scans' = Append(scans, [dom |-> d, before |-> seenBlobs, result |-> new_images'])
  /\ UNCHANGED <<config, other, session, calls, driver, pc, page_count, no_new_count, scroll_count,
                 batch_count, idx, files, progress, log, body_runs, empty_run, ended,
                 post_end, exit_reason>>

ScannerSpec == InitDefault /\ [][ScanCall]_vars

\* ---- window._blobCapture: findScrollContainer, scroll, getScrollInfo --------
\* The surface: NumEls elements in document order and the window.  An element is
\* not yet in the document ("new"), in it ("in") or removed from it ("gone": a
\* re-render replaced it); sel: it matches one of the preview selectors; auto:
\* its overflow-y makes it a scroll box; sh: scrollHeight; top: scrollTop.
\* clientHeight of every element and innerHeight of the window are ViewH.

\* scroll(800)
ScrollAmount == 800
\* el.scrollHeight > el.clientHeight + 100
ScrollableSlack == 100
\* el.scrollHeight > 5000
BigHeight == 5000
\* scrollTop + clientHeight >= scrollHeight - 50
EndSlack == 50

ViewH == 1000

\* scroll heights tried: nothing to scroll, a short document, a long one
Heights == {ViewH, ViewH + ScrollAmount + ScrollableSlack, BigHeight + ViewH}

NextHeight(h) == IF \E g \in Heights : g > h THEN Least({g \in Heights : g > h}) ELSE h

MaxTop(h) == Max(0, h - ViewH)

Scrollable(e) == e.sh > ViewH + ScrollableSlack

\* document.querySelectorAll(selectors[i]): elements in the document that match
BySelector(s) ==
  {i \in 1..Len(s.els) : s.els[i].doc = "in" /\ s.els[i].sel /\ Scrollable(s.els[i])}

\* document.querySelectorAll('*'): any large element with overflow-y scroll/auto
ByStyle(s) ==
  {i \in 1..Len(s.els) : /\ s.els[i].doc = "in"
                         /\ s.els[i].sh > BigHeight
                         /\ Scrollable(s.els[i])
                         /\ s.els[i].auto}

findScrollContainer_Cached(s) ==
  IF s.cached # 0 THEN s.cached
  ELSE IF BySelector(s) # {} THEN Least(BySelector(s))
  ELSE IF ByStyle(s) # {} THEN Least(ByStyle(s))
  ELSE 0

\* the element returned, 0 for null
findScrollContainer(s) ==
  IF s.cached # 0 /\ s.els[s.cached].doc = "in" THEN s.cached
  ELSE IF BySelector(s) # {} THEN Least(BySelector(s))
  ELSE IF ByStyle(s) # {} THEN Least(ByStyle(s))
  ELSE 0

\* this.scrollContainer after the call: assigned only when an element was found
CachedAfter(s) == IF findScrollContainer(s) # 0 THEN findScrollContainer(s) ELSE s.cached

\* container.scrollTop = y: clamped to the scrollable range; no effect on an
\* element that is not a scroll box
ScrollTopSet(e, y) == IF e.auto THEN Clamp(y, MaxTop(e.sh)) ELSE e.top

\* the object scroll(800) returns, with the target it acted on and the number of
\* scroll calls the loop had counted when it was made
ScrollResult(s) ==
  LET c == findScrollContainer(s) IN
    IF c # 0
    THEN LET oldTop == s.els[c].top
             newTop == ScrollTopSet(s.els[c], oldTop + ScrollAmount)
         IN [op |-> "scroll", at |-> scroll_count, on |-> c, doc |-> s.els[c].doc,
             before |-> oldTop,
             after |-> newTop,
             scrolled |-> ~(newTop = oldTop /\ oldTop > 0),
             atEnd |-> (newTop = oldTop /\ oldTop > 0)]
    ELSE LET oldY == s.winY
             newY == Clamp(oldY + ScrollAmount, MaxTop(s.bodyH))
         IN [op |-> "scroll", at |-> scroll_count, on |-> 0, doc |-> "in",
             before |-> oldY, after |-> newY,
             scrolled |-> (newY # oldY), atEnd |-> FALSE]

\* the surface after scroll(800)
ScrollMoved(s) ==
  LET r == ScrollResult(s) IN
    IF r.on # 0
    THEN [s EXCEPT !.cached = CachedAfter(s), !.els[r.on].top = r.after]
    ELSE [s EXCEPT !.winY = r.after]

\* the object getScrollInfo() returns, with the target it read
InfoResult(s) ==
  LET c == findScrollContainer(s) IN
    IF c # 0
    THEN [op |-> "info", at |-> scroll_count, on |-> c, doc |-> s.els[c].doc,
          before |-> s.els[c].top,
          after |-> s.els[c].top, scrolled |-> FALSE,
          atEnd |-> (s.els[c].top + ViewH >= s.els[c].sh - EndSlack)]
    ELSE [op |-> "info", at |-> scroll_count, on |-> 0, doc |-> "in",
          before |-> s.winY, after |-> s.winY,
          scrolled |-> FALSE, atEnd |-> (s.winY + ViewH >= s.bodyH - EndSlack)]

scroll ==
  /\ last_op' = ScrollResult(surface)
  /\ surface' = ScrollMoved(surface)

getScrollInfo ==
  /\ last_op' = InfoResult(surface)
  /\ surface' = [surface EXCEPT !.cached = CachedAfter(surface)]

\* what the page does on its own: it inserts an element, a re-render removes one,
\* lazily loaded content makes an element or the body taller
Attach ==
  \E i \in 1..Len(surface.els) :
    /\ surface.els[i].doc = "new"
    /\ surface' = [surface EXCEPT !.els[i].doc = "in"]

Detach ==
  \E i \in 1..Len(surface.els) :
    /\ surface.els[i].doc = "in"
    /\ surface' = [surface EXCEPT !.els[i].doc = "gone"]

Grow ==
  \/ \E i \in 1..Len(surface.els) :
       /\ surface.els[i].doc = "in"
       /\ NextHeight(surface.els[i].sh) # surface.els[i].sh
       /\ surface' = [surface EXCEPT !.els[i].sh = NextHeight(surface.els[i].sh)]
  \/ /\ NextHeight(surface.bodyH) # surface.bodyH
     /\ surface' = [surface EXCEPT !.bodyH = NextHeight(surface.bodyH)]

PageChanges == (Attach \/ Detach \/ Grow) /\ UNCHANGED last_op

\* the surfaces a run can start on: nothing scrolled yet, nothing cached
Surfaces ==
  [cached : {0},
   els : [1..NumEls -> [doc : {"new", "in"}, sel : BOOLEAN, auto : BOOLEAN,
                        sh : Heights, top : {0}]],
   winY : {0},
   bodyH : Heights]

InitDriver ==
  /\ other = Idle
  /\ LoopStart(0, 0)
  /\ NoCaller
  /\ scans = <<>>
  /\ calls = <<>>
  /\ surface \in Surfaces
  /\ last_op = <<>>
  /\ waiter = <<>>

NextDriver ==
  /\ \/ scroll
     \/ getScrollInfo
     \/ PageChanges
  /\ UNCHANGED <<config, other, loop, session, scans, calls, waiter>>

DriverSpec == InitDriver /\ [][NextDriver]_vars

\* ---- the capture loop on the scroll driver ----------------------------------
\* The loop's two scroll calls run in the page; the loop then reads what they
\* returned.  The page changes on its own at any time; as only the two calls look
\* at the surface, its changes are taken when a call is about to be made.

\* the result of the scroll call of this iteration has arrived
ScrollAnswered ==
  last_op # <<>> /\ last_op.op = "scroll" /\ last_op.at = scroll_count

\* the result of the scroll-info call of this iteration has arrived
InfoAnswered ==
  last_op # <<>> /\ last_op.op = "info" /\ last_op.at = scroll_count

\* the surfaces the loop is run on: every element is a preview scroll box of a
\* short document, the first one is in the document, the others are what
\* re-renders will put in its place; the body has nothing to scroll at first
LoopSurfaces ==
  {s \in Surfaces :
     /\ s.bodyH = ViewH
     /\ \A i \in 1..NumEls : /\ s.els[i].sel
                             /\ s.els[i].auto
                             /\ s.els[i].sh = ViewH + ScrollAmount + ScrollableSlack
                             /\ s.els[i].doc = IF i = 1 THEN "in" ELSE "new"}

InitOnSurface ==
  /\ other = Idle
  /\ \E mp \in 0..MaxCap, tp \in 0..MaxTotal : mp + tp > 0 /\ LoopStart(mp, tp)
  /\ NoCaller
  /\ scans = <<>>
  /\ calls = <<>>
  /\ surface \in LoopSurfaces
  /\ last_op = <<>>
  /\ waiter = <<>>

RemoteCall ==
  /\ \/ pc = "scroll" /\ ~ScrollAnswered /\ scroll
     \/ pc = "info" /\ ~InfoAnswered /\ getScrollInfo
     \/ /\ \/ pc = "scroll" /\ ~ScrollAnswered
           \/ pc = "info" /\ ~InfoAnswered
        /\ PageChanges
  /\ UNCHANGED <<config, other, loop, session, scans, calls, waiter>>

NextOnSurface ==
  \/ RemoteCall
  \/ LoopTest
  \/ Collect(Doms(DefaultFP))
  \/ SavePage
  \/ EndBatch
  \/ Scroll /\ ScrollAnswered /\ ((pc' = "info") <=> last_op.atEnd)
  \/ GetScrollInfo /\ InfoAnswered /\ (ended' <=> last_op.atEnd)
  \/ SettleWait
  \/ FinalCollect(Doms(DefaultFP))
  \/ FinalSave
  \/ FinalBreak
  \/ WaitForHighRes

OnSurfaceSpec == InitOnSurface /\ [][NextOnSurface]_vars

\* ---- window._blobCapture.waitForHighRes ---------------------------------------
\* One call: check() runs, and runs again 150 ms later until the promise is
\* resolved.  waiter holds the locals of the call.

\* var maxChecks = hasHighRes ? 30 : 50;
MaxChecksHigh == 30
MaxChecksLow == 50
\* var stableTarget = hasHighRes ? 3 : 5;
StableHigh == 3
StableLow == 5
\* targetWidth = targetWidth || 1000;
targetWidth == 1000

\* what one poll can see: the natural widths of the images in the viewport (no
\* image, a fallback preview, a full page, both)
Resolutions == {<<>>, <<890>>, <<1024>>, <<890, 1024>>}

HasHighRes(res) == \E k \in 1..Len(res) : res[k] >= targetWidth

Resolves_WhenStable(stable, count, high) == stable >= IF high THEN StableHigh ELSE StableLow

\* if (stableCount >= stableTarget || checkCount > maxChecks)
Resolves(stable, count, high) ==
  \/ stable >= IF high THEN StableHigh ELSE StableLow
  \/ count > IF high THEN MaxChecksHigh ELSE MaxChecksLow

\* the locals when waitForHighRes is called
WaitStart ==
  [checkCount |-> 0, lastResolutions |-> <<>>, stableCount |-> 0, hasHighRes |-> FALSE,
   resolved |-> FALSE]

\* one run of check()
check ==
  /\ ~waiter.resolved
  /\ \E res \in Resolutions :
       LET stable == IF res = waiter.lastResolutions THEN waiter.stableCount + 1 ELSE 0
           count == waiter.checkCount + 1
       IN waiter' = [checkCount |-> count, lastResolutions |-> res, stableCount |-> stable,
                     hasHighRes |-> HasHighRes(res),
                     resolved |-> Resolves(stable, count, HasHighRes(res))]
  /\ UNCHANGED <<config, other, loop, session, scans, calls, surface, last_op>>

InitWait ==
  /\ other = Idle
  /\ LoopStart(0, 0)
  /\ NoCaller
  /\ scans = <<>>
  /\ calls = <<>>
  /\ surface = [cached |-> 0, els |-> <<>>, winY |-> 0, bodyH |-> 0]
  /\ last_op = <<>>
  /\ waiter = WaitStart

MaxCleans == 2

\* ---- the release paths of one Scraper, one statement at a time ----
\* other.release: driver_obj, handler (of SIGINT and SIGTERM), the call stack of
\* the release paths in progress (one frame [path, at] per call of clean(),
\* of the atexit hook or of _signal_handler), where the process is, and counts.

\* a frame enters _cleanup() at its first statement
Frame(path) == [path |-> path, at |-> "test"]

\* the next statement of _cleanup() in the frame on top of the stack; quit()
\* is a call that takes time: it is invoked at "test" and has returned at "clear"
cleanup_step ==
  LET r == other.release
      n == Len(r.stack)
      goto(a) == [r.stack EXCEPT ![n].at = a]
  IN /\ n > 0
     /\ r.stack[n].at \in {"test", "quit", "clear", "pkill"}
     /\ other' = [other EXCEPT !.release =
          CASE r.stack[n].at = "test" ->
                 IF r.driver_obj = "live"
                 THEN [r EXCEPT !.stack = goto("quit"), !.quits = @ + 1]
                 ELSE [r EXCEPT !.stack = goto("pkill")]
            [] r.stack[n].at = "quit" -> [r EXCEPT !.stack = goto("clear")]
            [] r.stack[n].at = "clear" ->
                 [r EXCEPT !.stack = goto("pkill"), !.driver_obj = "none"]
            [] r.stack[n].at = "pkill" ->
                 [r EXCEPT !.stack = goto("after"), !.kills = @ + 1]]
     /\ UNCHANGED <<config, loop, outside>>

\* what follows _cleanup() in the frame on top of the stack: clean() puts the
\* saved handlers back and returns, the atexit hook returns and the process is
\* gone, _signal_handler calls sys.exit(0): SystemExit abandons every frame
\* below and the interpreter runs the atexit hook (unless it is running it)
after_cleanup ==
  LET r == other.release
      n == Len(r.stack)
  IN /\ n > 0
     /\ r.stack[n].at = "after"
     /\ other' = [other EXCEPT !.release =
          CASE r.stack[n].path = "clean" ->
                 [r EXCEPT !.stack = SubSeq(r.stack, 1, n - 1), !.handler = "original"]
            [] r.stack[n].path = "atexit" ->
                 [r EXCEPT !.stack = <<>>, !.process = "gone"]
            [] r.stack[n].path = "signal" ->
                 IF r.process = "running"
                 THEN [r EXCEPT !.stack = <<Frame("atexit")>>, !.process = "exiting"]
                 ELSE [r EXCEPT !.stack = <<>>, !.process = "gone"]]
     /\ UNCHANGED <<config, loop, outside>>

\* a release path begins: the program calls clean() (directly, from main's
\* finally or through __exit__), the program ends and the atexit hook runs, or
\* a signal arrives while the Scraper's handler is installed, between any two
\* statements of whatever is running
enter_release ==
  LET r == other.release
  IN /\ \/ /\ r.process = "running"
           /\ r.stack = <<>>
           /\ r.cleans < MaxCleans
           /\ other' = [other EXCEPT !.release =
                [r EXCEPT !.stack = <<Frame("clean")>>, !.cleans = @ + 1]]
        \/ /\ r.process = "running"
           /\ r.stack = <<>>
           /\ other' = [other EXCEPT !.release =
                [r EXCEPT !.stack = <<Frame("atexit")>>, !.process = "exiting"]]
        \/ /\ r.process # "gone"
           /\ r.handler = "scraper"
           /\ r.signals < MaxSignals
           /\ other' = [other EXCEPT !.release =
                [r EXCEPT !.stack = Append(@, Frame("signal")), !.signals = @ + 1]]
     /\ UNCHANGED <<config, loop, outside>>

\* after __init__: driver started, hook registered, handlers installed
InitRelease ==
  /\ Elsewhere
  /\ other = [Idle EXCEPT !.release =
       [driver_obj |-> "live", handler |-> "scraper", stack |-> <<>>,
        process |-> "running", quits |-> 0, kills |-> 0, cleans |-> 0, signals |-> 0]]

NextRelease == cleanup_step \/ after_cleanup \/ enter_release

ReleaseSpec == InitRelease /\ [][NextRelease]_vars

\* ---- the signal handlers of a process that makes several Scrapers ----
\* other.handlers: cur, the handler installed for each signal (0 is the one
\* installed before any Scraper, i is Scraper i's _signal_handler); orig, what
\* each Scraper saved in _original_sigint/_original_sigterm; made and cleaned.
NumScrapers == 3

Signals == {"SIGINT", "SIGTERM"}

\* __init__: signal.signal() installs the Scraper's handler and returns the
\* handler it replaces, which the Scraper keeps
construct(i) ==
  LET h == other.handlers
  IN /\ i \notin h.made
     /\ other' = [other EXCEPT !.handlers =
          [h EXCEPT !.orig[i] = h.cur, !.cur = [s \in Signals |-> i],
                    !.made = @ \cup {i}]]
     /\ UNCHANGED <<config, loop, outside>>

\* clean(): after _cleanup(), both saved handlers are installed again
clean(i) ==
  LET h == other.handlers
  IN /\ i \in h.made
     /\ other' = [other EXCEPT !.handlers =
          [h EXCEPT !.cur = h.orig[i], !.cleaned = @ \cup {i}]]
     /\ UNCHANGED <<config, loop, outside>>

InitHandlers ==
  /\ Elsewhere
  /\ other = [Idle EXCEPT !.handlers =
       [cur |-> [s \in Signals |-> 0], orig |-> [i \in 1..NumScrapers |-> <<>>],
        made |-> {}, cleaned |-> {}]]

NextHandlers == \E i \in 1..NumScrapers : construct(i) \/ clean(i)

HandlersSpec == InitHandlers /\ [][NextHandlers]_vars

\* ---- capture_preview_images, the scroll-based capture ----
\* other.legacy: the arguments and locals of one call (page_images stands for
\* len(page_images)), the page files as [n, ok] (ok = FALSE for a file that
\* open() created and the write did not finish), where the call is, why the
\* loop was left, and empty_run: the consecutive iterations up to now whose
\* collectNewImages() returned nothing (history).
MaxImages == 3

LegacyCapped(l) == l.max_pages # 0 /\ l.page_images >= l.max_pages

\* the for loop over a batch, outs giving the outcome of each save; the number
\* is taken and page_images grows before the save is tried, and the except
\* branch only prints. The main loop tests the cap after each save, the final
\* collection before each.
RECURSIVE SaveBatch(_, _, _)
SaveBatch(l, outs, final) ==
  IF outs = <<>> \/ (final /\ LegacyCapped(l)) THEN l
  ELSE LET n == l.page_images + 1
           saved == [l EXCEPT !.page_images = n,
                      !.files = IF outs[1] = "early" THEN @
                                ELSE @ \cup {[n |-> n, ok |-> outs[1] = "ok"]}]
       IN IF ~final /\ LegacyCapped(saved) THEN saved
          ELSE SaveBatch(saved, Tail(outs), final)

\* if current_count == last_image_count: no_new_images_count += 1, else reset
CountStall(l) ==
  IF l.page_images = l.last_image_count
  THEN [l EXCEPT !.no_new_images_count = @ + 1]
  ELSE [l EXCEPT !.no_new_images_count = 0, !.last_image_count = l.page_images]

\* the while test and one iteration of the loop: cap test, collectNewImages()
\* and its saves, the stall count, scroll(800), and at the end of the document
\* the final collection. A remote call that raises leaves through the except.
legacy_iteration ==
  LET l == other.legacy
      room == MaxImages - l.page_images
      left(m, why) == [m EXCEPT !.at = "left", !.exit = why]
  IN /\ l.at = "loop"
     /\ \/ /\ l.no_new_images_count >= StallLimit
           /\ other' = [other EXCEPT !.legacy = left(l, "stalled")]
        \/ /\ l.no_new_images_count < StallLimit
           /\ l.scroll_count >= Or3(l.max_pages, l.estimated_pages, DefaultPages) * ScrollFactor
           /\ other' = [other EXCEPT !.legacy = left(l, "scrolls")]
        \/ /\ l.no_new_images_count < StallLimit
           /\ l.scroll_count < Or3(l.max_pages, l.estimated_pages, DefaultPages) * ScrollFactor
           /\ \/ /\ LegacyCapped(l)
                 /\ other' = [other EXCEPT !.legacy = left(l, "capped")]
              \/ /\ ~LegacyCapped(l)
                 /\ other' = [other EXCEPT !.legacy = left(l, "error")]
              \/ /\ ~LegacyCapped(l)
                 /\ \E outs \in SeqsUpTo(Outcomes, Min(room, 2)), atEnd \in BOOLEAN :
                      LET counted == CountStall(SaveBatch(l, outs, FALSE))
                          scrolled == [counted EXCEPT !.scroll_count = @ + 1,
                                         !.empty_run = IF outs = <<>> THEN @ + 1 ELSE 0]
                      IN IF atEnd
                         THEN \E last \in SeqsUpTo(Outcomes, Min(MaxImages - scrolled.page_images, 1)) :
                                other' = [other EXCEPT !.legacy =
                                            left(SaveBatch(scrolled, last, TRUE), "end")]
                         ELSE other' = [other EXCEPT !.legacy = scrolled]
     /\ UNCHANGED <<config, loop, outside>>

\* return len(page_images), after the loop or after the except branch
legacy_return ==
  /\ other.legacy.at = "left"
  /\ other' = [other EXCEPT !.legacy.at = "returned", !.legacy.result = other.legacy.page_images]
  /\ UNCHANGED <<config, loop, outside>>

InitLegacy ==
  /\ Elsewhere
  /\ \E mp \in 0..MaxCap, ep \in 0..MaxTotal :
       other = [Idle EXCEPT !.legacy =
         [max_pages |-> mp, estimated_pages |-> ep, page_images |-> 0,
          last_image_count |-> -1, no_new_images_count |-> 0, scroll_count |-> 0,
          files |-> {}, at |-> "loop", exit |-> "", result |-> 0, empty_run |-> 0]]

NextLegacy == legacy_iteration \/ legacy_return

LegacySpec == InitLegacy /\ [][NextLegacy]_vars

\* ---- main.py: capture_preview_images_cdp, one page after the other ----
\* other.pager: the arguments, page_count and target_page of one call, the page
\* the viewer shows (of doc pages), the page files as [n, ok], where the call
\* is, and log: one record per capture attempt (history): the page shown, what
\* came back, page_count afterwards and what the click on next returned.
MaxDoc == 3

target_pages_OneMore(l) == Or3(l.max_pages, l.total_pages, DefaultPages) + 1

\* target_pages = max_pages or total_pages or 500
target_pages(l) == Or3(l.max_pages, l.total_pages, DefaultPages)

\* the head of the for loop, the cap test, and execute_async_script(tryCapture):
\* nothing comes back ("none") or a PNG data URL, whose save succeeds or raises
\* before or after open(); page_count += 1 is taken back in the except branch
capture_page ==
  LET l == other.pager
  IN /\ l.at = "capture"
     /\ IF l.target_page > target_pages(l) \/ (l.max_pages # 0 /\ l.page_count >= l.max_pages)
        THEN other' = [other EXCEPT !.pager.at = "left"]
        ELSE \E got \in {"none"} \cup Outcomes :
               LET n == l.page_count + 1
               IN other' = [other EXCEPT !.pager =
                    [l EXCEPT !.at = "next",
                       !.page_count = IF got = "ok" THEN n ELSE @,
                       !.files = IF got \in {"none", "early"} THEN @
                                 ELSE {f \in @ : f.n # n} \cup {[n |-> n, ok |-> got = "ok"]},
                       !.log = Append(@, [shown |-> l.shown, got |-> got,
                                          n |-> IF got = "ok" THEN n ELSE l.page_count,
                                          next |-> FALSE])]]
     /\ UNCHANGED <<config, loop, outside>>

\* the script that clicks bp-PageControls-next when it is there and enabled;
\* if not next_clicked: break
click_next ==
  LET l == other.pager
  IN /\ l.at = "next"
     /\ \E next_clicked \in {l.shown < l.doc, FALSE} :
          other' = [other EXCEPT !.pager =
            IF next_clicked
            THEN [l EXCEPT !.at = "capture", !.shown = @ + 1, !.target_page = @ + 1,
                           !.log[Len(l.log)].next = TRUE]
            ELSE [l EXCEPT !.at = "left"]]
     /\ UNCHANGED <<config, loop, outside>>

\* return page_count
page_return ==
  /\ other.pager.at = "left"
  /\ other' = [other EXCEPT !.pager.at = "returned"]
  /\ UNCHANGED <<config, loop, outside>>

InitPager ==
  /\ Elsewhere
  /\ \E mp \in 0..MaxCap, tp \in 0..MaxTotal, d \in 1..MaxDoc :
       other = [Idle EXCEPT !.pager =
         [max_pages |-> mp, total_pages |-> tp, doc |-> d, shown |-> 1,
          page_count |-> 0, target_page |-> 1, files |-> {}, at |-> "capture",
          log |-> <<>>]]

NextPager == capture_page \/ click_next \/ page_return

PagerSpec == InitPager /\ [][NextPager]_vars

\* ---- PDF assembly: main.py and images_to_pdf.py ----
\* other.pdf: the page files of the image directory as [n, ext], who assembles
\* ("main" or "tool"), and image_files, the list handed to img2pdf.convert.
Exts == {"png", "jpg"}

\* the file name page_{n:04d}.{ext} from the sequence number on, as character
\* codes that keep the order of the characters: "." 0, digits 1..10, "j" 20, "p" 21
Name(f) ==
  LET w == IF f.n < 10000 THEN 4 ELSE IF f.n < 100000 THEN 5 ELSE 6
      tens(k) == IF k = 0 THEN 1 ELSE IF k = 1 THEN 10 ELSE IF k = 2 THEN 100
                 ELSE IF k = 3 THEN 1000 ELSE IF k = 4 THEN 10000 ELSE 100000
  IN [i \in 1..w |-> ((f.n \div tens(w - i)) % 10) + 1]
       \o <<0, IF f.ext = "jpg" THEN 20 ELSE 21>>

\* sorted(): the paths in the order of their names, character by character
RECURSIVE sorted(_)
sorted(S) ==
  IF S = {} THEN <<>>
  ELSE LET less(a, b) ==
             \E i \in 1..Min(Len(a), Len(b)) + 1 :
               /\ \A j \in 1..(i - 1) : a[j] = b[j]
               /\ IF i > Len(a) THEN i <= Len(b) ELSE i <= Len(b) /\ a[i] < b[i]
           m == CHOOSE x \in S : \A y \in S : ~less(Name(y), Name(x))
       IN <<m>> \o sorted(S \ {m})

\* the list of image files: main.py globs page_*.png and page_*.jpg and sorts
\* the whole; images_to_pdf.py globs its pattern, page_*.png by default, and
\* looks for page_*.jpg only when that found nothing
image_files(who, dir) ==
  LET glob(ext) == {f \in dir : f.ext = ext}
  IN IF who = "main" THEN sorted(glob("png") \cup glob("jpg"))
     ELSE IF glob("png") # {} THEN sorted(glob("png")) ELSE sorted(glob("jpg"))

\* the PDF is made from the list
assemble ==
  /\ other.pdf.at = "start"
  /\ other' = [other EXCEPT !.pdf.at = "done",
                 !.pdf.image_files = image_files(other.pdf.who, other.pdf.dir)]
  /\ UNCHANGED <<config, loop, outside>>

InitPdf ==
  /\ Elsewhere
  /\ \E dir \in SUBSET ([n : 1..MaxImages, ext : Exts]), who \in {"main", "tool"} :
       /\ dir # {}
       /\ other = [Idle EXCEPT !.pdf =
            [dir |-> dir, who |-> who, at |-> "start", image_files |-> <<>>]]

PdfSpec == InitPdf /\ [][assemble]_vars

\* ---- chinesebox.py: download_box_file ----
\* other.dl: where the call is, whether html_file and the output file exist,
\* the exception on its way to the except clauses, 'return True' reached, the
\* value returned, total_size and the name of the output file, and as history
\* the outcome of each step taken.

\* download_with_progress: True with the file written; False, the exception
\* caught inside, with no file when requests.get() raised and with a partial
\* file when the stream broke after open()
download_with_progress(o) == [ret |-> o = "ok", file |-> o # "early"]

cleanup_temp_OnSuccessOnly(d, removed) ==
  [d EXCEPT !.at = "returned", !.result = d.returning, !.pending = "",
            !.html = d.html /\ ~d.returning]

\* except ...: print; finally: os.remove(html_file) when it exists, a failing
\* os.remove being passed over; then return True if it was reached, else False
cleanup_temp(d, removed) ==
  [d EXCEPT !.at = "returned", !.result = d.returning, !.pending = "",
            !.html = d.html /\ ~removed,
            !.steps = IF d.html /\ ~removed THEN Append(@, "remove failed") ELSE @]

\* the try block, one step at a time; a step that fails raises and the call
\* goes on at the except clauses
download_box_file ==
  LET d == other.dl
      raise(m, what, exc) ==
        [m EXCEPT !.at = "finally", !.pending = exc, !.steps = Append(@, what)]
      go(m, to, what) == [m EXCEPT !.at = to, !.steps = Append(@, what)]
  IN /\ \/ /\ d.at = "start"
           /\ \E made \in BOOLEAN :
                other' = [other EXCEPT !.dl =
                  IF made THEN [d EXCEPT !.at = "page"]
                  ELSE raise(d, "makedirs failed", "OSError")]
        \/ /\ d.at = "page"
           /\ \E o \in Outcomes :
                LET got == download_with_progress(o)
                    m == [d EXCEPT !.html = got.file]
                IN other' = [other EXCEPT !.dl =
                     IF got.ret THEN go(m, "extract", "page")
                     ELSE raise(m, "page download failed", "ValueError")]
        \/ /\ d.at = "extract"
           /\ \E r \in {"ok", "unreadable", "no id"}, size \in 0..1 :
                other' = [other EXCEPT !.dl =
                  CASE r = "ok" -> [go(d, "api", "folder id") EXCEPT !.total_size = size]
                    [] r = "unreadable" -> raise(d, "page unreadable", "UnicodeDecodeError")
                    [] OTHER -> raise(d, "folder id not found", "ValueError")]
        \/ /\ d.at = "api"
           /\ \E r \in {"ok", "request failed", "no json", "no download_url"}, named \in BOOLEAN :
                other' = [other EXCEPT !.dl =
                  IF r = "ok"
                  THEN [go(d, "final", "download_url") EXCEPT !.file_name =
                          IF named THEN "ZipFileName" ELSE "box_download_{folder_id}.zip"]
                  ELSE raise(d, r, CASE r = "request failed" -> "RequestException"
                                     [] r = "no json" -> "JSONDecodeError"
                                     [] OTHER -> "ValueError")]
        \/ /\ d.at = "final"
           /\ \E o \in Outcomes :
                LET got == download_with_progress(o)
                    m == [d EXCEPT !.out = got.file]
                IN other' = [other EXCEPT !.dl =
                     IF got.ret
                     THEN [go(m, "finally", "final") EXCEPT !.returning = TRUE]
                     ELSE raise(m, "final download failed", "ValueError")]
        \/ /\ d.at = "finally"
           /\ \E removed \in BOOLEAN : other' = [other EXCEPT !.dl = cleanup_temp(d, removed)]
     /\ UNCHANGED <<config, loop, outside>>

\* the call begins: no temporary file yet; an output file of an earlier call
\* may be there
InitDownload ==
  /\ Elsewhere
  /\ \E old \in BOOLEAN :
       other = [Idle EXCEPT !.dl =
         [at |-> "start", html |-> FALSE, out |-> old, pending |-> "", total_size |-> 0,
          file_name |-> "", returning |-> FALSE, result |-> FALSE, steps |-> <<>>]]

DownloadSpec == InitDownload /\ [][download_box_file]_vars

\* ---- load_url, the wait for the preview ----
\* other.loader: max_wait (self.wait_load_time) and waited in tenths of a
\* second, max_wait <<>> for None (the Scraper was made without wait_time)
\* and <<t>> for a number; the
\* number of readiness polls so far; where the call is; how it ended.
MaxWaitTenths == 30

poll_interval == 5

\* driver.get(url), then the while loop, one test and one poll per step: a
\* ready poll returns, another one sleeps and adds poll_interval to waited;
\* the loop falls through to the timeout message when waited >= max_wait.
\* driver.get() and execute_script() may raise, and comparing waited with None
\* raises TypeError: nothing in load_url catches.
load_url_poll ==
  LET w == other.loader
      end(at, how) == [w EXCEPT !.at = at, !.how = how]
  IN /\ \/ /\ w.at = "get"
           /\ \E raises \in BOOLEAN :
                other' = [other EXCEPT !.loader =
                  IF raises THEN end("raised", "get") ELSE [w EXCEPT !.at = "loop"]]
        \/ /\ w.at = "loop"
           /\ w.max_wait = <<>>
           /\ other' = [other EXCEPT !.loader = end("raised", "TypeError")]
        \/ /\ w.at = "loop"
           /\ w.max_wait # <<>>
           /\ IF w.waited < w.max_wait[1]
              THEN \E ready \in {"ready", "not ready", "raises"} :
                     other' = [other EXCEPT !.loader =
                       CASE ready = "ready" -> [end("returned", "ready") EXCEPT !.polls = @ + 1]
                         [] ready = "raises" -> [end("raised", "poll") EXCEPT !.polls = @ + 1]
                         [] OTHER -> [w EXCEPT !.polls = @ + 1, !.waited = @ + poll_interval]]
              ELSE other' = [other EXCEPT !.loader = end("returned", "timeout")]
     /\ UNCHANGED <<config, loop, outside>>

InitLoad ==
  /\ Elsewhere
  /\ \E mw \in {<<>>} \cup {<<t>> : t \in 0..MaxWaitTenths} :
       other = [Idle EXCEPT !.loader =
         [max_wait |-> mw, waited |-> 0, polls |-> 0, at |-> "get", how |-> ""]]

LoadSpec == InitLoad /\ [][load_url_poll]_vars

\* setTimeout(check, 150) fires
WaitSpec == InitWait /\ [][check]_vars /\ WF_vars(check)

TypeOK ==
  /\ pc \in {"head", "scan", "save", "scroll", "info", "settle", "final_scan",
             "final_save", "wait", "done"}
  /\ page_count \in Nat
  /\ seenBlobs \subseteq Nat

\* ---- properties ----------------------------------------------------------

\* the save attempts that completed, in the order they were made
Written == SelectSeq(log, LAMBDA r : r.ok)

FilesOf(c) == {f \in files : f.cand = c}

AttemptsOf(c) == {k \in 1..Len(log) : log[k].cand = c}

\* C1: the sequence numbers under which pages are successfully written are exactly
\* 1..K, in increasing order, with no gap and no repeat, K being the page count,
\* for any scan results and any mix of save failures.
C1_SequenceNumbers ==
  /\ Len(Written) = page_count
  /\ \A k \in 1..Len(Written) : Written[k].n = k

\* a run that ended with two pages written after a failed save
C1_Witness ==
  /\ pc = "done"
  /\ page_count >= 2
  /\ \E k \in 1..Len(log) : ~log[k].ok /\ k < Len(log)

\* C2: with max_pages = N the output directory never holds more than N page files.
C2_AtMostCapFiles == max_pages # 0 => Cardinality(files) <= max_pages

\* C3: once a fingerprint is in the seen-set, no later scan (the settle pass
\* included) returns a candidate with that fingerprint as new, and no later
\* iteration saves one.
C3_NoRepeat ==
  [][/\ \A k \in 1..Len(new_images') : new_images'[k].hash \notin seen_before'
     /\ Len(log') > Len(log) => log'[Len(log')].hash \notin seen_before']_vars

\* a scan found an element whose fingerprint was in the seen-set beside a new one
C3_Witness == seen_before # {} /\ skipped > 0 /\ Len(new_images) > 0

\* C4: pages persisted <= distinct fingerprints in the seen-set <= candidate images
\* scanned so far, also when one scan holds several candidates with one fingerprint.
C4_Counts ==
  /\ page_count <= Cardinality(seenBlobs)
  /\ Cardinality(seenBlobs) <= scanned

\* C5 as stated: when the run ends without the cap having been reached, every
\* candidate a scan returned as new is exactly one page file.
C5_EveryCandidateOnePage ==
  (pc = "done" /\ ~CapReached) =>
     \A c \in 1..accepted : Cardinality(FilesOf(c)) = 1

\* C5 as amended: every candidate a scan returned as new is handed to the save step
\* at most once, and exactly once by the time the run ends without the cap having
\* been reached; a candidate whose save completed is exactly one page file, and a
\* candidate whose save failed is no page file and is not tried again.
C5_SavedOnceOrDropped ==
  /\ \A c \in 1..accepted :
       /\ Cardinality(AttemptsOf(c)) <= 1
       /\ \A k \in AttemptsOf(c) :
            Cardinality(FilesOf(c)) = IF log[k].ok THEN 1 ELSE 0
       /\ AttemptsOf(c) = {} => FilesOf(c) = {}
  /\ (pc = "done" /\ ~CapReached) =>
       \A c \in 1..accepted : Cardinality(AttemptsOf(c)) = 1

\* a run that ended below the cap with a saved and a dropped candidate
C5_Witness ==
  /\ pc = "done"
  /\ ~CapReached
  /\ \E j, k \in 1..Len(log) : log[j].ok /\ ~log[k].ok

\* C6: when scroll() and the following getScrollInfo() both report atEnd, the loop
\* issues exactly one further wait and one further scan and nothing else, hands
\* every candidate of that scan to the save step unless the cap is reached, and
\* terminates; a candidate of that scan whose save completes is a page file.
C6_SettlePass ==
  /\ ended => \/ post_end = <<>> /\ pc = "settle"
              \/ post_end = <<"wait">> /\ pc = "final_scan"
              \/ post_end = <<"wait", "scan">> /\ pc \in {"final_save", "done"}
  /\ (ended /\ pc = "done") =>
       /\ exit_reason = "at_end"
       /\ \A k \in 1..Len(new_images) :
            \/ CapReached
            \/ \E j \in 1..Len(log) :
                 /\ log[j].cand = new_images[k].cand
                 /\ log[j].ok => Cardinality(FilesOf(new_images[k].cand)) = 1

\* the settle pass found a candidate no earlier scan had returned and wrote it
C6_Witness ==
  /\ ended
  /\ pc = "done"
  /\ Len(new_images) > 0
  /\ \E j \in 1..Len(log) : log[j].cand = new_images[1].cand /\ log[j].ok
  /\ page_count >= 2

\* C7: after 15 consecutive iterations whose scan returned no new candidate the loop
\* starts no further iteration, atEnd reported or not; and it is not left through
\* the stall rule before the 15th consecutive empty scan.
C7_StallExit ==
  /\ pc = "scan" => empty_run < StallLimit
  /\ exit_reason = "stalled" => empty_run = StallLimit
  /\ (pc = "done" /\ empty_run = StallLimit) => exit_reason \in {"stalled", "at_end"}

\* the loop was left through the stall rule after pages had been captured
C7_Witness == exit_reason = "stalled" /\ page_count >= 1 /\ ~ended

\* C8: the capture loop terminates, and its body runs at most
\* max_scrolls = 3 * (max_pages or detected total or 500) times.
C8_Terminates == <>(pc = "done") /\ [](body_runs <= max_scrolls)

\* the scroll cap ended a run in which every scan returned a new candidate and
\* atEnd was never reported
C8_Witness ==
  /\ exit_reason = "scroll_cap"
  /\ body_runs = max_scrolls
  /\ accepted >= body_runs
  /\ Cardinality(seenBlobs) >= body_runs

\* C9: a failed save under sequence number n leaves the run going and the page count
\* as it was before the candidate was taken, and the next save that completes writes
\* page n.
C9_FailedSave ==
  [][Len(log') > Len(log) =>
       LET r == log'[Len(log')] IN
         /\ ~r.ok => /\ page_count' = page_count
                     /\ pc' = pc
                     /\ exit_reason' = ""
         /\ (r.ok /\ Len(log) > 0 /\ ~log[Len(log)].ok) =>
              /\ r.n = log[Len(log)].n
              /\ \E f \in files' : f.n = r.n /\ f.cand = r.cand]_vars

\* a save failed and the next one completed
C9_Witness == \E k \in 1..Len(log) : k > 1 /\ log[k].ok /\ ~log[k - 1].ok /\ log[k].n >= 2

\* C10: at the end of a run the output directory holds exactly one page file per
\* sequence number 1..K and none numbered above K, K being the returned count.
C10_Directory ==
  pc = "done" =>
    /\ \A n \in 1..page_count : Cardinality({f \in files : f.n = n}) = 1
    /\ \A f \in files : f.n <= page_count

\* C11: on the scripted surface (ScenarioPerScroll = 3 new high-resolution pages per
\* scroll for ScenarioScrolls = 5 scrolls, then atEnd confirmed by getScrollInfo),
\* a run whose settle pass finds nothing new ends with exactly 15 page files,
\* numbered 1..15, all written completely, and returns 15.
C11_Scenario ==
  (pc = "done" /\ exit_reason = "at_end" /\ new_images = <<>>) =>
     /\ page_count = ScenarioPages
     /\ Cardinality(files) = ScenarioPages
     /\ {f.n : f \in files} = 1..ScenarioPages
     /\ \A f \in files : f.cand # 0

\* the scripted run ended at the document end after one scan before the first
\* scroll and one after each of the scrolls
C11_Witness ==
  /\ pc = "done"
  /\ exit_reason = "at_end"
  /\ new_images = <<>>
  /\ body_runs = ScenarioScrolls + 1
  /\ page_count = ScenarioPages
  /\ max_pages = 0

\* C12: whichever way the loop is left (page cap, stall threshold, scroll cap,
\* document end with settle pass), the value the capture returns is the number of
\* save attempts that completed, which is the number of completely written page
\* files, for any mix of save failures.
C12_ReturnedCount ==
  pc = "done" =>
    /\ exit_reason \in {"capped", "stalled", "scroll_cap", "at_end"}
    /\ ReturnValue = Len(Written)
    /\ ReturnValue = Cardinality({f \in files : f.cand # 0})

\* a run left through the stall rule returned a count after a save had failed
C12_Witness ==
  /\ pc = "done"
  /\ exit_reason = "stalled"
  /\ ReturnValue >= 1
  /\ \E k \in 1..Len(log) : ~log[k].ok

\* C13: the returned result tells why the run ended: two calls with the same
\* arguments that return the same result ended for the same reason (page cap,
\* stall threshold, scroll cap or document end).
C13_ReasonInResult ==
  (pc = "done" /\ prev # <<>> /\ prev[1] = ReturnValue) => prev[2] = exit_reason

\* C17: the count the progress bar shows never decreases; outside a batch of the
\* main loop (and after every save of the settle pass) it equals the number of
\* pages written so far; a failed save leaves it as it was.
C17_Progress ==
  /\ [](pc # "save" => progress = Len(Written))
  /\ [][/\ progress' >= progress
        /\ (Len(log') > Len(log) /\ ~log'[Len(log')].ok) => progress' = progress]_vars

\* a batch in which one save failed and one completed has been reported
C17_Witness ==
  /\ pc = "scroll"
  /\ progress >= 1
  /\ \E k \in 1..Len(log) : ~log[k].ok

\* C14: a SIGINT or SIGTERM handled by _signal_handler during the session stops the
\* run: from then on the capture loop takes no further step (no scan, scroll or
\* save), quit() has been called on the driver and the chromedriver kill has been
\* run, and neither the handling of the signal nor anything after it touches a page
\* file that was written completely.
C14_Interrupt ==
  /\ [](signals > 0 => quits >= 1 /\ kills >= 1)
  /\ [][signals' > 0 =>
          /\ {f \in files : f.cand # 0} \subseteq files'
          /\ signals > 0 => UNCHANGED <<pc, log, files, scroll_count, seenBlobs>>]_vars

\* a signal arrived in the middle of a batch after a page had been written
C14_Witness ==
  /\ signals > 0
  /\ sess = "exit"
  /\ pc = "save"
  /\ idx <= Len(new_images)
  /\ page_count >= 1

\* C15: whichever way control leaves the session (normal return, an exception of
\* load_url, get_download_title or the capture, a signal, interpreter exit), by then
\* quit() has been called on the driver and the chromedriver kill has been run.
C15_Released ==
  ((caller = "main" /\ sess = "left") \/ sess = "exit") => (quits >= 1 /\ kills >= 1)

\* main is left by an exception, without any signal, after one cleanup
C15_Witness ==
  /\ caller = "main"
  /\ sess = "left"
  /\ pending = "error"
  /\ signals = 0
  /\ quits = 1
  /\ kills = 1

\* C16: when a remote scripting call of the capture raised, the capture method does
\* not return a count to its caller, and when main is left the exception is still
\* on its way up and the driver has been released.
C16_RemoteFailure ==
  remote_raised =>
    /\ ~capture_returned
    /\ (caller = "main" /\ sess \in {"left", "exit"}) => (pending # "" /\ quits >= 1)

ReturnedBy(k) == Hashes(scans[k].result)

\* seenBlobs when the k-th scan had returned
After(k) == IF k = Len(scans) THEN seenBlobs ELSE scans[k + 1].before

\* a high-resolution candidate was on the surface of the k-th scan
HighResPresent(k) ==
  \E i \in 1..Len(scans[k].dom) : scans[k].dom[i].width >= minWidth

\* ... and one whose hash was not in seenBlobs
NewHighRes(k) ==
  \E i \in 1..Len(scans[k].dom) :
    scans[k].dom[i].width >= minWidth /\ scans[k].dom[i].hash \notin scans[k].before

\* hashes of the low-resolution candidates on the surface of the k-th scan
LowResOf(k) ==
  {scans[k].dom[i].hash : i \in {i \in 1..Len(scans[k].dom) :
      scans[k].dom[i].width >= fallbackMinWidth /\ scans[k].dom[i].width < minWidth}}

\* hashes of the unseen low-resolution candidates the k-th scan did not return
Discarded(k) == (LowResOf(k) \ scans[k].before) \ ReturnedBy(k)

\* C19: a scan that has a high-resolution candidate (width >= min_width) on its
\* surface returns no low-resolution candidate, also when every high-resolution
\* candidate on the surface has been seen before.
C19_NoLowResBesideHighRes ==
  \A k \in 1..Len(scans) :
    HighResPresent(k) =>
      \A j \in 1..Len(scans[k].result) : scans[k].result[j].width >= minWidth

C21_ScrollReport ==
  (last_op # <<>> /\ last_op.op = "scroll") =>
    /\ last_op.scrolled <=> (last_op.after # last_op.before)
    /\ last_op.atEnd <=> (last_op.after = last_op.before /\ last_op.before > 0)
    /\ ~(last_op.scrolled /\ last_op.atEnd)

\* C23: every scroll() and getScrollInfo() call moves or reads an element that is in
\* the document at that moment, or the window: when the cached container was
\* removed since the last call, the call finds another container or falls back.
C23_NoDetachedTarget == last_op # <<>> => last_op.doc = "in"

\* the first element was the container (it has been scrolled) and was removed; the
\* next scroll() call moved the second element
C23_Witness ==
  /\ last_op # <<>>
  /\ last_op.op = "scroll"
  /\ last_op.on = 2
  /\ last_op.after > last_op.before
  /\ surface.els[1].doc = "gone"
  /\ surface.els[1].top > 0

\* C22: the loop enters the settle pass, and leaves through the at-end exit, only
\* when the scroll call and the scroll-info read of the same iteration both
\* reported atEnd; when the scroll call reported atEnd and the read did not, the
\* loop goes on with the wait step and the next iteration, without a settle pass.
C22_Corroborated ==
  /\ [](exit_reason = "at_end" => (InfoAnswered /\ last_op.atEnd))
  /\ [][/\ (pc' = "info" /\ pc # "info") => (pc = "scroll" /\ ScrollAnswered /\ last_op.atEnd)
        /\ (pc' = "settle" /\ pc # "settle") => (pc = "info" /\ InfoAnswered /\ last_op.atEnd)
        /\ (pc = "info" /\ pc' # "info") =>
              (InfoAnswered /\ pc' = IF last_op.atEnd THEN "settle" ELSE "wait")
        /\ (pc = "wait" /\ pc' # "wait") => pc' = "head"
        /\ (pc' = "final_scan" /\ pc # "final_scan") => pc = "settle"
        /\ (exit_reason' = "at_end" /\ exit_reason = "") => pc = "final_save"]_vars

\* the scroll call reported atEnd, the read did not, and the loop is at the wait step
C22_Witness ==
  /\ pc = "wait"
  /\ InfoAnswered
  /\ ~last_op.atEnd
  /\ last_op.before > 0
  /\ exit_reason = ""

\* ---- the reference key ------------------------------------------------------

\* everything behind the first comma of a data URL
AfterFirstComma(u) ==
  IF Commas(u) = {} THEN <<>> ELSE SubSeq(u, Least(Commas(u)) + 1, Len(u))

\* the part of it before the next comma, if there is one
UpToComma(d) ==
  IF Commas(d) = {} THEN d ELSE SubSeq(d, 1, Least(Commas(d)) - 1)

\* the three windows of a long data segment, counted from 0: [100, 300),
\* [mid, mid + 200) with mid = floor(len / 2), and the last 300 characters
Windows(d) ==
  <<SubSeq(d, HeadFrom + 1, HeadTo),
    SubSeq(d, (Len(d) \div 2) + 1, (Len(d) \div 2) + MidLen),
    SubSeq(d, Len(d) - TailLen + 1, Len(d))>>

ReferenceKey(d) ==
  IF Len(d) < HashMinLen THEN d ELSE Windows(d)[1] \o Windows(d)[2] \o Windows(d)[3]

\* C24 as stated: the key of every call is the reference key of the data segment
\* (the text between the first comma of the payload and the next comma or the
\* end); two long payloads with the same three windows have the same key; two
\* distinct short payloads have distinct keys.
C24_DistinctShortPayloads ==
  \A i \in 1..Len(calls), j \in 1..Len(calls) :
    LET u == DataUrl(calls[i].url)
        v == DataUrl(calls[j].url)
        d == UpToComma(AfterFirstComma(u))
        e == UpToComma(AfterFirstComma(v))
    IN /\ calls[i].key = ReferenceKey(d)
       /\ (Len(d) >= HashMinLen /\ Len(e) >= HashMinLen /\ Windows(d) = Windows(e))
            => calls[i].key = calls[j].key
       /\ (Len(d) < HashMinLen /\ Len(e) < HashMinLen /\ u # v)
            => calls[i].key # calls[j].key

\* C24, amended: the key of every call is the reference key of the data segment;
\* two long payloads with the same three windows have the same key; two short
\* payloads with distinct data segments have distinct keys.
C24_ReferenceKey ==
  \A i \in 1..Len(calls), j \in 1..Len(calls) :
    LET d == UpToComma(AfterFirstComma(DataUrl(calls[i].url)))
        e == UpToComma(AfterFirstComma(DataUrl(calls[j].url)))
    IN /\ calls[i].key = ReferenceKey(d)
       /\ (Len(d) >= HashMinLen /\ Len(e) >= HashMinLen /\ Windows(d) = Windows(e))
            => calls[i].key = calls[j].key
       /\ (Len(d) < HashMinLen /\ Len(e) < HashMinLen /\ d # e)
            => calls[i].key # calls[j].key

\* two long payloads of different lengths with the same windows and one key, and
\* a long payload that differs from the first inside a window
C24_Witness ==
  /\ Len(calls) = 3
  /\ Len(DataUrl(calls[1].url)) > HashMinLen
  /\ Len(DataUrl(calls[2].url)) > Len(DataUrl(calls[1].url))
  /\ calls[1].key = calls[2].key
  /\ Len(DataUrl(calls[3].url)) = Len(DataUrl(calls[1].url))
  /\ calls[3].key # calls[1].key

\* C25: seenBlobs only grows during a run.  Every step keeps every hash that was
\* in it; it changes only in a scan, and what a scan adds are hashes of candidates
\* it returned.  No failed save, scroll, wait or cap check changes it.
C25_SeenGrows ==
  [][/\ seenBlobs \subseteq seenBlobs'
     /\ seenBlobs' # seenBlobs =>
          /\ pc \in {"scan", "final_scan"}
          /\ seenBlobs' \ seenBlobs \subseteq Hashes(new_images')]_vars

\* two scans have added a hash each, a save has failed and the surface was scrolled
C25_Witness ==
  /\ Cardinality(seenBlobs) >= 2
  /\ seen_before # {}
  /\ seen_before # seenBlobs
  /\ scroll_count >= 1
  /\ \E k \in 1..Len(log) : ~log[k].ok

\* C26: page numbers follow acceptance order.  Of two candidates that both have a
\* page file, the one a scan returned earlier (an earlier scan, or an earlier
\* place in the same result) has the smaller page number.
C26_AcceptanceOrder ==
  \A f \in files, g \in files :
    (f.cand # 0 /\ g.cand # 0 /\ f.cand < g.cand) => f.n < g.n

\* pages 1 and 2 hold two candidates of different scans, and a candidate accepted
\* between them has no page
C26_Witness ==
  \E f \in files, g \in files :
    /\ f.cand # 0
    /\ g.cand > f.cand + 1
    /\ g.n = f.n + 1
    /\ \E k \in 1..Len(log) : log[k].cand = f.cand + 1 /\ ~log[k].ok
    /\ body_runs >= 2

\* C27: at the start of every iteration no_new_count is the number of immediately
\* preceding consecutive iterations whose scan returned no new candidate; the end
\* of a batch adds one to it when the scan returned nothing and sets it to 0 when
\* the scan returned a candidate, whether or not any save of the batch succeeded.
C27_StallCounter ==
  /\ [](pc = "head" => no_new_count = empty_run)
  /\ [][(pc = "save" /\ pc' = "scroll") =>
          no_new_count' = IF Len(new_images) = 0 THEN no_new_count + 1 ELSE 0]_vars

\* an iteration without a new candidate, then one whose only candidate could not be
\* saved: the counter is back at 0
C27_Witness ==
  /\ pc = "head"
  /\ no_new_count = 0
  /\ body_runs >= 2
  /\ accepted = 1
  /\ page_count = 0
  /\ Len(log) = 1

\* C28: once page_count has reached the cap no scan and no scroll is issued any more:
\* in a state where the cap is reached no step calls scroll() or collectNewBlobs(),
\* also when the cap was reached in the middle of a batch.
C28_NoSurfaceOpAtCap ==
  [][CapReached => /\ scroll_count' = scroll_count
                   /\ ~(pc \in {"scan", "final_scan"} /\ pc' # pc)]_vars

\* C29: a waitForHighRes call always resolves, after at most 51 polls, whatever the
\* polls see.  It resolves at the first poll that finds the resolutions unchanged
\* for the 3rd consecutive time with a high-resolution image in view (the 5th
\* without), or that is the 31st with one in view (the 51st without).
C29_WaitResolves ==
  /\ <>(waiter # <<>> /\ waiter.resolved)
  /\ [](waiter # <<>> =>
         /\ waiter.checkCount <= MaxChecksLow + 1
         /\ waiter.checkCount >= 1 =>
              (waiter.resolved <=>
                 \/ waiter.stableCount >= (IF waiter.hasHighRes THEN StableHigh ELSE StableLow)
                 \/ waiter.checkCount > (IF waiter.hasHighRes THEN MaxChecksHigh
                                                                ELSE MaxChecksLow)))

\* the resolutions changed on every poll and never showed a high-resolution image:
\* the call resolved at the 51st poll
C29_Witness ==
  /\ waiter # <<>>
  /\ waiter.resolved
  /\ waiter.checkCount = MaxChecksLow + 1
  /\ waiter.stableCount = 0
  /\ ~waiter.hasHighRes

\* C30: the total of the progress bar is never smaller than the count it shows;
\* when the count exceeds the estimate the total is raised to the count.
C30_TotalCoversCount == progress <= pbar_total


\* C31: whatever release paths of one Scraper run, in whatever order, a signal
\* handler interrupting a cleanup in progress included, driver_obj.quit() is
\* invoked at most once (quit() never raises here)
C31_QuitOnce == other.release.quits <= 1

\* C32: once clean() has been called on every Scraper that was constructed,
\* whatever the order of constructions and clean() calls, SIGINT and SIGTERM
\* have the handlers installed before the first Scraper, and no installed
\* handler is that of a cleaned-up Scraper
C32_HandlersRestored ==
  LET h == other.handlers
  IN (h.made # {} /\ h.cleaned = h.made) =>
       \A s \in Signals : h.cur[s] = 0 /\ h.cur[s] \notin h.cleaned

\* C33: when capture_preview_images returns, the count it returns is the
\* number of page files written in full, and these files are numbered from 1
\* to that count without a gap, whatever saves failed
C33_LegacyCountIsFiles ==
  LET l == other.legacy
      written == {f \in l.files : f.ok}
  IN l.at = "returned" =>
       /\ l.result = Cardinality(written)
       /\ {f.n : f \in written} = 1..l.result

\* C34: when the loop of capture_preview_images is left through the stall
\* rule, exactly 15 consecutive iterations that captured no new image came
\* before, also when they are the first iterations of the run
C34_LegacyStallAfter15 ==
  other.legacy.exit = "stalled" => other.legacy.empty_run = StallLimit

\* C35: the page-by-page loop of main.py makes at most max_pages, else the
\* detected total, else 500 capture attempts; every attempt but the last was
\* followed by a click on next, so the loop stops with the first iteration
\* that finds no enabled next control; that iteration has tried to capture the
\* page shown before the loop is left; and an attempt that returned nothing
\* leaves the sequence number where it was
C35_PageByPage ==
  LET l == other.pager
      bound == IF l.max_pages # 0 THEN l.max_pages
               ELSE IF l.total_pages # 0 THEN l.total_pages ELSE 500
      before(i) == IF i = 1 THEN 0 ELSE l.log[i - 1].n
  IN /\ Len(l.log) <= bound
     /\ \A i \in 1..Len(l.log) :
          /\ i < Len(l.log) => l.log[i].next
          /\ l.log[i].shown = i
          /\ l.log[i].got = "none" => l.log[i].n = before(i)
          /\ l.log[i].n \in {before(i), before(i) + 1}
     /\ l.at \in {"left", "returned"} =>
          /\ Len(l.log) > 0
          /\ Len(l.log) = bound \/ ~l.log[Len(l.log)].next
          /\ ~l.log[Len(l.log)].next => l.log[Len(l.log)].shown = l.shown
          /\ l.page_count = l.log[Len(l.log)].n

\* a call that returned after three attempts, the second of which got nothing,
\* left because the third page has no enabled next control
C35_Witness ==
  LET l == other.pager
  IN /\ l.at = "returned"
     /\ Len(l.log) = 3
     /\ l.log[2].got = "none"
     /\ l.page_count = 2
     /\ target_pages(l) > 3

\* C36: the list of images the PDF is made from holds every page file of the
\* directory, png and jpg, exactly once, in ascending order of the sequence
\* numbers, in main.py and in images_to_pdf run with its default pattern
C36_PdfHasEveryPage ==
  LET q == other.pdf.image_files
  IN other.pdf.at = "done" =>
       /\ {q[i] : i \in 1..Len(q)} = other.pdf.dir
       /\ Len(q) = Cardinality(other.pdf.dir)
       /\ \A i, j \in 1..Len(q) : i < j => q[i].n <= q[j].n

\* C37 as stated: after download_box_file has returned, on success and on
\* every failure path, the temporary HTML file is gone, True was returned
\* exactly when every step succeeded, and no exception is on its way out
C37_TempFileGone ==
  LET d == other.dl
  IN d.at = "returned" =>
       /\ ~d.html
       /\ d.result = (d.steps = <<"page", "folder id", "download_url", "final">>)
       /\ d.pending = ""

\* C37, amended: after the return the temporary HTML file is gone unless
\* os.remove failed on it; True was returned exactly when the four steps
\* succeeded, whatever os.remove did; no exception is on its way out
C37_TempFileGoneIfRemoved ==
  LET d == other.dl
      done == SelectSeq(d.steps, LAMBDA x : x # "remove failed")
  IN d.at = "returned" =>
       /\ d.html => d.steps[Len(d.steps)] = "remove failed"
       /\ d.result = (done = <<"page", "folder id", "download_url", "final">>)
       /\ d.pending = ""

\* a call that returned False after the API answered without download_url, the
\* page having been downloaded and then removed
C37_Witness ==
  LET d == other.dl
  IN /\ d.at = "returned"
     /\ d.steps = <<"page", "folder id", "no download_url">>
     /\ ~d.html
     /\ ~d.result

\* C38: load_url always returns: it never ends in an exception, it polls at
\* most ceil(max_wait / 0.5) times, it returns with the first poll that
\* reports ready, and it returns after ceil(max_wait / 0.5) polls none of
\* which reported ready
C38_LoadUrlReturns ==
  LET w == other.loader
      most == IF w.max_wait = <<>> THEN 0 ELSE (w.max_wait[1] + 4) \div 5
  IN /\ w.at # "raised"
     /\ w.polls <= most
     /\ w.at = "returned" /\ w.how = "timeout" => w.polls = most
     /\ w.at = "returned" /\ w.how = "ready" => w.waited = 5 * (w.polls - 1)

====
